---- MODULE Spec2Model ----
(***************************************************************************)
(* Model of generate_map_cyber_nld.py: the geocode cache (load, lookup on  *)
(* miss, incremental save), the building of the incident rows and the      *)
(* writing of the output, over one or more consecutive runs of the script  *)
(* that share the persisted cache file geo_cache.json.                     *)
(*                                                                         *)
(* Strings are sequences of one-character strings, so that str.lower() is  *)
(* computed.  Latitudes and longitudes are integers in micro-degrees.      *)
(***************************************************************************)
EXTENDS Integers, Sequences, FiniteSets, TLC

\* Largest number of rows of the input table.
MaxRows == 3
\* Largest number of consecutive runs of the script on the same cache file.
MaxRuns == 2

\* The values of df["place"] after the normalisation of line 69.
PlaceNames == { <<>>, <<"U", "t">>, <<"u", "t">>, <<"R", "o">> }

\* Python's None, JSON's null: the "unresolvable" marker of the cache.
None == [isNone |-> TRUE, lat |-> 0, lon |-> 0]

Coord(la, lo) == [isNone |-> FALSE, lat |-> la, lon |-> lo]

\* NL_CENTER = {"lat": 52.132633, "lon": 5.291266}
NL_CENTER == [lat |-> 52132633, lon |-> 5291266]

\* Coordinates the geocoding service may return.
Locations == { Coord(52090737, 5121420), Coord(51924420, 4477733) }

\* What one call of geocode(query, ...) can do: return a location, return
\* None (no match, or the RateLimiter gave up after its retries), or raise.
GeocodeResults ==
    { [kind |-> "loc", loc |-> l] : l \in Locations }
        \cup { [kind |-> k, loc |-> None] : k \in {"none", "timeout", "raise"} }

----------------------------------------------------------------------------
\* str.lower(), character by character.
lower_char(c) ==
    CASE c = "U" -> "u"
      [] c = "T" -> "t"
      [] c = "R" -> "r"
      [] c = "O" -> "o"
      [] OTHER -> c

RECURSIVE str_lower(_)
str_lower(s) ==
    IF s = <<>> THEN <<>>
    ELSE <<lower_char(Head(s))>> \o str_lower(Tail(s))

\* key = place.lower()
KeyIdentity(place) == place
KeyOf(place) == str_lower(place)

\* if not place: continue
NeverSkip(place) == FALSE
skip_place(place) == place = <<>>

\* key in cache
HitUnlessNone(key, c) == key \in DOMAIN c /\ ~c[key].isNone
AlwaysHit(key, c) == TRUE
cache_hit(key, c) == key \in DOMAIN c

\* df["place"].unique().tolist(): the distinct values, in order of first
\* appearance.
unique(s) ==
    LET first == { j \in 1..Len(s) : \A k \in 1..(j - 1) : s[k] # s[j] }
        nth(n) == CHOOSE j \in first : Cardinality({ k \in first : k < j }) = n - 1
    IN  [n \in 1..Cardinality(first) |-> s[nth(n)]]

\* The empty dict.
EmptyCache == [k \in {} |-> None]

\* cache[key] = v
dict_set(c, key, v) ==
    [k \in DOMAIN c \cup {key} |-> IF k = key THEN v ELSE c[k]]

----------------------------------------------------------------------------
\* The cache file: absent, not parseable as JSON (empty or cut short), or a
\* JSON object, held as its set of members <<key, value text>>.
MissingFile == [kind |-> "missing", body |-> {}]
CorruptFile == [kind |-> "corrupt", body |-> {}]
JsonFile(b) == [kind |-> "json", body |-> b]

\* json.dump(cache, f, ...)
json_dump(c) ==
    { <<k, IF c[k].isNone THEN <<"null">>
                          ELSE <<"obj", c[k].lat, c[k].lon>> >> : k \in DOMAIN c }

\* json.load(f)
json_load(b) ==
    [k \in { e[1] : e \in b } |->
        LET e == CHOOSE e \in b : e[1] = k
        IN  IF e[2][1] = "null" THEN None ELSE Coord(e[2][2], e[2][3])]

LoadDropsNull(f) ==
    IF f.kind = "json"
    THEN json_load({ e \in f.body : e[2][1] # "null" })
    ELSE EmptyCache

\* load_geo_cache(path): {} when the file is absent or json.load raises.
load_geo_cache(f) ==
    IF f.kind = "json" THEN json_load(f.body) ELSE EmptyCache

\* open(path, "w"): the file exists and is empty until something is written.
open_w(f) == CorruptFile

\* save_geo_cache(cache, path), once json.dump has finished.
SaveDropsNone(c) ==
    JsonFile(json_dump([k \in { x \in DOMAIN c : ~c[x].isNone } |-> c[k]]))
save_geo_cache(c) == JsonFile(json_dump(c))

----------------------------------------------------------------------------
\* Lines 92-99: what the lookup stores under key.
StoreDropsRaise(c, key, res) ==
    IF res.kind = "loc" THEN dict_set(c, key, res.loc)
    ELSE IF res.kind = "raise" THEN c
    ELSE dict_set(c, key, None)

geocode_store(c, key, res) ==
    IF res.kind = "loc" THEN dict_set(c, key, res.loc)
    ELSE dict_set(c, key, None)

\* except Exception: every error of the lookup is caught.
CaughtNothing(res) == FALSE
exception_caught(res) == TRUE

\* Lines 108-116: the coordinates of a row.
row_coords(c, place) ==
    LET key == KeyOf(place)
    IN  IF key \notin DOMAIN c \/ c[key].isNone
        THEN NL_CENTER
        ELSE [lat |-> c[key].lat, lon |-> c[key].lon]

\* Lines 106-135: rows, one record per row of df (the fields that do not
\* depend on the place are left out).
build_rows(c, ps) ==
    [j \in 1..Len(ps) |->
        [place |-> ps[j],
         lat |-> row_coords(c, ps[j]).lat,
         lon |-> row_coords(c, ps[j]).lon]]

----------------------------------------------------------------------------
VARIABLES
    places,        \* df["place"], one entry per input row
    file,          \* geo_cache.json
    cache,         \* the dict cache
    pc,            \* where the script is
    i,             \* index of the current place in unique_places
    calls,         \* the calls of geocode() made in this run
    rows,          \* the list rows
    out,           \* the rows embedded in the written HTML file
    run,           \* number of the current run
    cacheAtStart,  \* the cache as loaded at line 80 of this run
    crashedAt,     \* where the run was when it was killed
    prev           \* the outcome of the previous run

vars == << places, file, cache, pc, i, calls, rows, out, run, cacheAtStart,
           crashedAt, prev >>

\* The parts of the script and of the generated page that do not depend on
\* the geocode cache are modelled on their own, each in one variable.
VARIABLES
    dcell,         \* one cell of df["date"] on its way through parse_date_cell
    df,            \* the table read from the CSV and its columns
    page           \* the generated page in the browser: the educational modal

ext == << dcell, df, page >>

allvars == << vars, ext >>

\* The value of a variable in the specifications that leave it alone.
Idle == [pc |-> "idle"]

ExtIdle == dcell = Idle /\ df = Idle /\ page = Idle

unique_places == unique(places)

\* What a reader of the cache file gets.
Persisted == load_geo_cache(file)

CacheKeys == { str_lower(p) : p \in PlaceNames }

\* The cache files a run can find: none, an unreadable one, or any mapping
\* of keys to a location or null (the file is editable between runs).
InitCaches ==
    UNION { [S -> {None, Coord(52090737, 5121420)}] : S \in SUBSET CacheKeys }

InitFiles ==
    {MissingFile, CorruptFile} \cup { save_geo_cache(c) : c \in InitCaches }

InputTables == UNION { [1..n -> PlaceNames] : n \in 0..MaxRows }

NoPrev == [done |-> FALSE, rows |-> <<>>, file |-> MissingFile, lookups |-> 0]

Init ==
    /\ places \in InputTables
    /\ file \in InitFiles
    /\ cache = EmptyCache
    /\ pc = "load"
    /\ i = 1
    /\ calls = <<>>
    /\ rows = <<>>
    /\ out = <<>>
    /\ run = 1
    /\ cacheAtStart = EmptyCache
    /\ crashedAt = "none"
    /\ prev = NoPrev
    /\ ExtIdle

\* Line 80: cache = load_geo_cache(geo_cache_file)
Load ==
    /\ pc = "load"
    /\ cache' = load_geo_cache(file)
    /\ cacheAtStart' = load_geo_cache(file)
    /\ pc' = "loop"
    /\ i' = 1
    /\ UNCHANGED << places, file, calls, rows, out, run, crashedAt, prev >>
    /\ UNCHANGED ext

\* Lines 85-87: an empty place is passed over.
LoopSkipEmpty ==
    /\ pc = "loop"
    /\ i <= Len(unique_places)
    /\ skip_place(unique_places[i])
    /\ i' = i + 1
    /\ UNCHANGED << places, file, cache, pc, calls, rows, out, run,
                    cacheAtStart, crashedAt, prev >>
    /\ UNCHANGED ext

\* Lines 88-90: the key is in the cache.
LoopHit ==
    /\ pc = "loop"
    /\ i <= Len(unique_places)
    /\ ~skip_place(unique_places[i])
    /\ cache_hit(KeyOf(unique_places[i]), cache)
    /\ i' = i + 1
    /\ UNCHANGED << places, file, cache, pc, calls, rows, out, run,
                    cacheAtStart, crashedAt, prev >>
    /\ UNCHANGED ext

\* Lines 91-99: the lookup of a place whose key is not in the cache.
Geocode ==
    /\ pc = "loop"
    /\ i <= Len(unique_places)
    /\ ~skip_place(unique_places[i])
    /\ ~cache_hit(KeyOf(unique_places[i]), cache)
    /\ \E res \in GeocodeResults :
          /\ calls' = Append(calls, [place |-> unique_places[i], kind |-> res.kind])
          /\ IF res.kind = "raise" /\ ~exception_caught(res)
             THEN /\ pc' = "crashed"
                  /\ crashedAt' = "geocode"
                  /\ cache' = cache
             ELSE /\ pc' = "save_open"
                  /\ crashedAt' = crashedAt
                  /\ cache' = geocode_store(cache, KeyOf(unique_places[i]), res)
    /\ UNCHANGED << places, file, i, rows, out, run, cacheAtStart, prev >>
    /\ UNCHANGED ext

\* Lines 101, 37: save_geo_cache opens the file for writing.
SaveOpen ==
    /\ pc = "save_open"
    /\ file' = open_w(file)
    /\ pc' = "save_dump"
    /\ UNCHANGED << places, cache, i, calls, rows, out, run, cacheAtStart, crashedAt, prev >>
    /\ UNCHANGED ext

\* Lines 101, 38: json.dump has written the cache; on to the next place.
SaveDump ==
    /\ pc = "save_dump"
    /\ file' = save_geo_cache(cache)
    /\ pc' = "loop"
    /\ i' = i + 1
    /\ UNCHANGED << places, cache, calls, rows, out, run, cacheAtStart,
                    crashedAt, prev >>
    /\ UNCHANGED ext

\* Lines 103, 37: after the loop, save_geo_cache opens the file again.
FinalSaveOpen ==
    /\ pc = "loop"
    /\ i > Len(unique_places)
    /\ file' = open_w(file)
    /\ pc' = "final_dump"
    /\ UNCHANGED << places, cache, i, calls, rows, out, run, cacheAtStart, crashedAt, prev >>
    /\ UNCHANGED ext

\* Lines 103, 38.
FinalSaveDump ==
    /\ pc = "final_dump"
    /\ file' = save_geo_cache(cache)
    /\ pc' = "build"
    /\ UNCHANGED << places, cache, i, calls, rows, out, run, cacheAtStart,
                    crashedAt, prev >>
    /\ UNCHANGED ext

\* Lines 106-135.
BuildRows ==
    /\ pc = "build"
    /\ rows' = build_rows(cache, places)
    /\ pc' = "write"
    /\ UNCHANGED << places, file, cache, i, calls, out, run, cacheAtStart, crashedAt, prev >>
    /\ UNCHANGED ext

\* Lines 137-697: the rows are embedded in the template and written.
WriteOutput ==
    /\ pc = "write"
    /\ out' = rows
    /\ pc' = "done"
    /\ UNCHANGED << places, file, cache, i, calls, rows, run, cacheAtStart, crashedAt, prev >>
    /\ UNCHANGED ext

RunningPcs == {"load", "loop", "save_open", "save_dump", "final_dump", "build", "write"}

\* The process is killed, or an error nothing catches ends it (an OSError of
\* open or write, a KeyboardInterrupt during the throttled lookups).
Crash ==
    /\ pc \in RunningPcs
    /\ pc' = "crashed"
    /\ crashedAt' = pc
    /\ UNCHANGED << places, file, cache, i, calls, rows, out, run,
                    cacheAtStart, prev >>
    /\ UNCHANGED ext

\* The script is started again on the same input and the same cache file.
NextRun ==
    /\ pc \in {"done", "crashed"}
    /\ run < MaxRuns
    /\ run' = run + 1
    /\ prev' = [done |-> pc = "done", rows |-> rows, file |-> file,
                lookups |-> Len(calls)]
    /\ cache' = EmptyCache
    /\ cacheAtStart' = EmptyCache
    /\ pc' = "load"
    /\ i' = 1
    /\ calls' = <<>>
    /\ rows' = <<>>
    /\ crashedAt' = "none"
    /\ UNCHANGED << places, file, out >>
    /\ UNCHANGED ext

Next ==
    \/ Load
    \/ LoopSkipEmpty
    \/ LoopHit
    \/ Geocode
    \/ SaveOpen
    \/ SaveDump
    \/ FinalSaveOpen
    \/ FinalSaveDump
    \/ BuildRows
    \/ WriteOutput
    \/ Crash
    \/ NextRun

Spec == Init /\ [][Next]_vars

\* The steps of a run that nothing kills: every call of geocode() returns or
\* raises, and the file operations succeed.
RunStep ==
    \/ Load
    \/ LoopSkipEmpty
    \/ LoopHit
    \/ Geocode
    \/ SaveOpen
    \/ SaveDump
    \/ FinalSaveOpen
    \/ FinalSaveDump
    \/ BuildRows
    \/ WriteOutput

NoKillNext ==
    \/ RunStep
    \/ NextRun

\* A single-threaded script goes on to its next statement whenever it has one.
LiveSpec == Init /\ [][NoKillNext]_vars /\ WF_vars(RunStep)

\* The script's cache state in the specifications that do not run it.
RunIdle ==
    /\ places = <<>>
    /\ file = MissingFile
    /\ cache = EmptyCache
    /\ pc = "idle"
    /\ i = 1
    /\ calls = <<>>
    /\ rows = <<>>
    /\ out = <<>>
    /\ run = 1
    /\ cacheAtStart = EmptyCache
    /\ crashedAt = "none"
    /\ prev = NoPrev

----------------------------------------------------------------------------
(***************************************************************************)
(* parse_date_cell and the date fields of a row.  A cell is a sequence of  *)
(* tokens (words and blanks).                                              *)
(***************************************************************************)
\* Largest number of tokens of a date cell.
MaxDateLen == 3

\* DEFAULT_YEAR = 2024
DEFAULT_YEAR == 2024

DateTokens == { " ", "Jan", "17", "x", ToString(DEFAULT_YEAR) }

DateCells == UNION { [1..n -> DateTokens] : n \in 0..MaxDateLen }

\* date_iso = None
NoDate == "None"

\* What dateparser.parse(...) followed by dt.date().isoformat() can do:
\* raise, or give an ISO date.
ParseResults == { "raise", "2024-01-17", "2024-02-29" }

\* str.strip()
RECURSIVE lstrip(_)
lstrip(s) ==
    IF s # <<>> /\ Head(s) = " " THEN lstrip(Tail(s)) ELSE s

RECURSIVE rstrip(_)
rstrip(s) ==
    IF s # <<>> /\ s[Len(s)] = " " THEN rstrip(SubSeq(s, 1, Len(s) - 1)) ELSE s

str_strip(s) == rstrip(lstrip(s))

\* The text handed to dateparser.parse: s when str(DEFAULT_YEAR) is in s,
\* f"{s} {DEFAULT_YEAR}" otherwise.
date_query(s) ==
    IF \E n \in 1..Len(s) : s[n] = ToString(DEFAULT_YEAR)
    THEN s
    ELSE s \o << " ", ToString(DEFAULT_YEAR) >>

\* parse_date_cell(v), res being what the parser does with the query.
DateUncaught(v, res) ==
    IF str_strip(v) = <<>> THEN [raised |-> FALSE, iso |-> NoDate]
    ELSE IF res = "raise" THEN [raised |-> TRUE, iso |-> NoDate]
    ELSE [raised |-> FALSE, iso |-> res]

parse_date_cell(v, res) ==
    IF str_strip(v) = <<>> THEN [raised |-> FALSE, iso |-> NoDate]
    ELSE IF res = "raise" THEN [raised |-> FALSE, iso |-> NoDate]
    ELSE [raised |-> FALSE, iso |-> res]

NoRec == [date_raw |-> <<>>, date_iso |-> NoDate]

DateInit ==
    /\ RunIdle
    /\ df = Idle
    /\ page = Idle
    /\ \E c \in DateCells :
          dcell = [pc |-> "read", date |-> c, query |-> <<>>, outcome |-> "none",
                   iso |-> NoDate, rec |-> NoRec]

\* Line 75: df["_date_iso"] = df["date"].apply(parse_date_cell), for one cell.
ApplyParseDate ==
    /\ dcell.pc = "read"
    /\ \E res \in ParseResults :
          LET called == str_strip(dcell.date) # <<>>
              r == parse_date_cell(dcell.date, res)
          IN  dcell' = [dcell EXCEPT
                          !.pc = IF r.raised THEN "aborted" ELSE "parsed",
                          !.query = IF called THEN date_query(str_strip(dcell.date))
                                              ELSE <<>>,
                          !.outcome = IF called THEN res ELSE "none",
                          !.iso = r.iso]
    /\ UNCHANGED << vars, df, page >>

\* Lines 120-123: the date fields of the row's record.
BuildDateRow ==
    /\ dcell.pc = "parsed"
    /\ dcell' = [dcell EXCEPT
                    !.pc = "emitted",
                    !.rec = [date_raw |-> dcell.date, date_iso |-> dcell.iso]]
    /\ UNCHANGED << vars, df, page >>

DateNext ==
    \/ ApplyParseDate
    \/ BuildDateRow

DateSpec == DateInit /\ [][DateNext]_allvars

----------------------------------------------------------------------------
(***************************************************************************)
(* The expected columns of the table read from the CSV.                    *)
(***************************************************************************)
\* Largest number of rows of the table.
MaxTableRows == 1

expected_cols ==
    << "date", "place", "company", "company_domain", "attack_type",
       "consequence", "perpetrator", "Addcom_related", "state_related" >>

ExpectedSet == { expected_cols[n] : n \in 1..Len(expected_cols) }

\* Values of a cell after fillna("").
CellValues == { "", "v" }

\* df[c] = "": a column of empty strings.
empty_column(n) == [r \in 1..n |-> ""]

\* Lines 64-66, for the first k expected columns.
RECURSIVE BackfillAll(_, _, _)
BackfillAll(cols, n, k) ==
    IF k = 0 THEN cols
    ELSE LET done == BackfillAll(cols, n, k - 1)
         IN  dict_set(done, expected_cols[k], empty_column(n))

RECURSIVE backfill(_, _, _)
backfill(cols, n, k) ==
    IF k = 0 THEN cols
    ELSE LET done == backfill(cols, n, k - 1)
             c == expected_cols[k]
         IN  IF c \notin DOMAIN done
             THEN dict_set(done, c, empty_column(n))
             ELSE done

\* The tables pd.read_csv can give: some of the expected columns, and
\* possibly a column the script does not know; at least one column.
ColInit ==
    /\ RunIdle
    /\ dcell = Idle
    /\ page = Idle
    /\ \E n \in 0..MaxTableRows, S \in SUBSET ExpectedSet, extra \in BOOLEAN :
          \E t \in [S -> [1..n -> CellValues]] :
             LET c == IF extra THEN dict_set(t, "notes", [r \in 1..n |-> "v"])
                               ELSE t
             IN  /\ DOMAIN c # {}
                 /\ df = [pc |-> "read", nrows |-> n, input |-> c, cols |-> c]

\* Lines 63-66: the expected columns are made to exist.
EnsureColumns ==
    /\ df.pc = "read"
    /\ df' = [df EXCEPT !.pc = "filled",
                        !.cols = backfill(df.cols, df.nrows, Len(expected_cols))]
    /\ UNCHANGED << vars, dcell, page >>

ColNext == EnsureColumns

ColSpec == ColInit /\ [][ColNext]_allvars

----------------------------------------------------------------------------
(***************************************************************************)
(* The educational modal of the generated page: the DOM state its handlers *)
(* read and write, and the events of the user and of the timers.           *)
(***************************************************************************)
\* setProgress: the percentage shown is at most 99.
PROGRESS_MAX == 99

\* data-yt of the popup anchors.
AnchorYt == { "", "https://youtu.be/x" }

\* The page as loaded: no inline display on the modal or on Close, Close
\* with aria-hidden="true", the checkbox unchecked.
PageLoaded ==
    [ pc |-> "page",
      modal |-> "",            \* modalWrap.style.display
      ack |-> FALSE,           \* ackCheckbox.checked
      closeDisplay |-> "",     \* closeBtn.style.display
      closeAria |-> TRUE,      \* closeBtn has aria-hidden="true"
      disclaimer |-> "none",   \* eduDisclaimer.style.display
      second |-> FALSE,        \* eduSecondAlert shown
      secondTimer |-> FALSE,   \* the setTimeout of the restore link is pending
      fullscreen |-> FALSE,    \* document.fullscreenElement is set
      yt |-> "",               \* currentYt
      opened |-> "none",       \* what window.open was last called with
      pct |-> 0,               \* the percentage setProgress has shown
      timer |-> FALSE,         \* progressTimer is set
      prevented |-> FALSE,     \* the last keydown had preventDefault called
      event |-> "load" ]       \* the last event handled

\* #eduModal { display:none; } unless the inline style says block.
ModalShown(pg) == pg.modal = "block"

\* #eduCloseBtn[aria-hidden="true"]{ display:none; }, overridden by the
\* inline style.
CloseShown(pg) ==
    \/ pg.closeDisplay = "inline-block"
    \/ (pg.closeDisplay = "" /\ ~pg.closeAria)

\* The user can see and click Close.
CloseVisible(pg) == ModalShown(pg) /\ CloseShown(pg)

\* openEduModalFromAnchor(anchor); fs: requestFullscreen was granted.
openEduModalFromAnchor(pg, yt, fs) ==
    [pg EXCEPT !.yt = yt,
               !.disclaimer = "none",
               !.ack = FALSE,
               !.closeAria = TRUE,
               !.closeDisplay = "none",
               !.modal = "block",
               !.pct = 0,
               !.timer = TRUE,
               !.fullscreen = pg.fullscreen \/ fs,
               !.event = "open"]

\* closeEduModal()
closeEduModal(pg) ==
    [pg EXCEPT !.modal = "none",
               !.fullscreen = FALSE,
               !.timer = FALSE,
               !.pct = 0]

\* The 'change' handler of ackCheckbox, this.checked being pg.ack.
AckChangeNeverHides(pg) ==
    IF pg.ack
    THEN [pg EXCEPT !.closeDisplay = "inline-block", !.closeAria = FALSE,
                    !.disclaimer = "block"]
    ELSE pg

ack_change(pg) ==
    IF pg.ack
    THEN [pg EXCEPT !.closeDisplay = "inline-block", !.closeAria = FALSE,
                    !.disclaimer = "block"]
    ELSE [pg EXCEPT !.closeDisplay = "none", !.closeAria = TRUE,
                    !.disclaimer = "none"]

\* The keydown handler: Escape is only kept from its default action.
keydown(pg, key) ==
    [pg EXCEPT !.prevented = (key = "Escape" /\ pg.modal = "block")]

PageInit ==
    /\ RunIdle
    /\ dcell = Idle
    /\ df = Idle
    /\ page = PageLoaded

\* A click on a "Source" link of a popup (lines 658-664).
ClickSource ==
    /\ \E yt \in AnchorYt, fs \in BOOLEAN :
          page' = openEduModalFromAnchor(page, yt, fs)
    /\ UNCHANGED << vars, dcell, df >>

\* The user toggles the acknowledge checkbox (lines 626-651).
ToggleAck ==
    /\ ModalShown(page)
    /\ page' = [ack_change([page EXCEPT !.ack = ~page.ack]) EXCEPT !.event = "ack"]
    /\ UNCHANGED << vars, dcell, df >>

\* A click on the Close button (lines 654-656).
ClickClose ==
    /\ CloseVisible(page)
    /\ page' = [closeEduModal(page) EXCEPT !.event = "close"]
    /\ UNCHANGED << vars, dcell, df >>

\* A key is pressed (lines 667-674); the browser itself leaves fullscreen
\* on Escape.
PressKey ==
    /\ \E key \in {"Escape", "Enter"} :
          page' = [keydown(page, key) EXCEPT
                     !.fullscreen = page.fullscreen /\ key # "Escape",
                     !.event = IF key = "Escape" THEN "escape" ELSE "key"]
    /\ UNCHANGED << vars, dcell, df >>

\* A click on the inline restore link (lines 565-578).
ClickRestore ==
    /\ ModalShown(page)
    /\ page' = [page EXCEPT !.fullscreen = FALSE, !.secondTimer = TRUE,
                            !.event = "restore"]
    /\ UNCHANGED << vars, dcell, df >>

\* The timeout of the restore link fires (lines 574-577).
ShowSecondAlert ==
    /\ page.secondTimer
    /\ page' = [page EXCEPT !.secondTimer = FALSE, !.second = TRUE,
                            !.event = "second"]
    /\ UNCHANGED << vars, dcell, df >>

\* A click on "Understood" (lines 620-623).
ClickSecondClose ==
    /\ page.second
    /\ page' = [page EXCEPT !.second = FALSE, !.event = "second_close"]
    /\ UNCHANGED << vars, dcell, df >>

\* A click on the inline about link (lines 582-592).
ClickAbout ==
    /\ ModalShown(page)
    /\ page' = [page EXCEPT !.opened = IF page.yt # "" THEN "yt" ELSE "rick",
                            !.event = "about"]
    /\ UNCHANGED << vars, dcell, df >>

\* The progress timer fires (lines 465-481): the percentage grows by a
\* random amount and stops at 99.
ProgressStep ==
    /\ page.timer
    /\ IF page.pct >= PROGRESS_MAX
       THEN page' = [page EXCEPT !.timer = FALSE, !.event = "tick"]
       ELSE \E p \in page.pct..(page.pct + 2) :
               /\ p <= PROGRESS_MAX
               /\ page' = [page EXCEPT !.pct = p, !.event = "tick"]
    /\ UNCHANGED << vars, dcell, df >>

PageNext ==
    \/ ClickSource
    \/ ToggleAck
    \/ ClickClose
    \/ PressKey
    \/ ClickRestore
    \/ ShowSecondAlert
    \/ ClickSecondClose
    \/ ClickAbout
    \/ ProgressStep

PageSpec == PageInit /\ [][PageNext]_allvars

----------------------------------------------------------------------------
\* The number of calls of geocode() made in this run for the key k.
Lookups(cs, k) ==
    Cardinality({ n \in 1..Len(cs) : str_lower(cs[n].place) = k })

RowAt(rs, j) == [lat |-> rs[j].lat, lon |-> rs[j].lon]

AfterLoopPcs == {"final_dump", "build", "write", "done"}

\* C1: once the geocoding loop of a run has ended, every non-empty place of
\* the input whose key was not in the cache loaded at the start of the run
\* has had exactly one call of geocode(), however many rows carry it; no key
\* ever has more than one call in a run.
C1_OneLookupPerMissingName ==
    /\ \A k \in CacheKeys : Lookups(calls, k) <= 1
    /\ pc \in AfterLoopPcs =>
          \A j \in 1..Len(places) :
             (places[j] # <<>> /\ str_lower(places[j]) \notin DOMAIN cacheAtStart)
                => Lookups(calls, str_lower(places[j])) = 1

\* A finished run in which two rows carry the same place, absent from the
\* loaded cache, and that place was looked up once.
C1_Witness ==
    /\ pc = "done"
    /\ \E j1, j2 \in 1..Len(places) :
          /\ j1 < j2
          /\ places[j1] = places[j2]
          /\ places[j1] # <<>>
          /\ str_lower(places[j1]) \notin DOMAIN cacheAtStart
          /\ Lookups(calls, str_lower(places[j1])) = 1

C3_Orig ==
    \A j \in 1..Len(rows) :
       (\/ rows[j].place = <<>>
        \/ /\ str_lower(rows[j].place) \in DOMAIN cache
           /\ cache[str_lower(rows[j].place)].isNone)
          => RowAt(rows, j) = NL_CENTER

\* C4 (as claimed): after the rows are built there is one record per input
\* row; the record of a place whose lookup succeeded has the pair stored
\* under the lower-cased place, every other record has NL_CENTER.
C4_Orig ==
    pc \in {"write", "done"} =>
       /\ Len(rows) = Len(places)
       /\ \A j \in 1..Len(places) :
             LET k == str_lower(places[j])
             IN  IF places[j] # <<>> /\ k \in DOMAIN cache /\ ~cache[k].isNone
                 THEN RowAt(rows, j) = [lat |-> cache[k].lat, lon |-> cache[k].lon]
                 ELSE RowAt(rows, j) = NL_CENTER

FailedCalls == { n \in 1..Len(calls) : calls[n].kind # "loc" }

\* C5: a call of geocode() that returns nothing, times out or raises does
\* not end the run: the step stores the unresolvable marker under the key
\* and goes on to save the cache, the marker stays, and the records of that
\* place are built with NL_CENTER.
C5_LookupFailureDegrades ==
    /\ [][ (Len(calls') = Len(calls) + 1 /\ calls'[Len(calls')].kind # "loc")
              => /\ pc' = "save_open"
                 /\ str_lower(calls'[Len(calls')].place) \in DOMAIN cache'
                 /\ cache'[str_lower(calls'[Len(calls')].place)].isNone ]_vars
    /\ [](\A n \in FailedCalls :
             /\ str_lower(calls[n].place) \in DOMAIN cache
             /\ cache[str_lower(calls[n].place)].isNone
             /\ \A j \in 1..Len(rows) :
                   str_lower(rows[j].place) = str_lower(calls[n].place)
                      => RowAt(rows, j) = NL_CENTER)

\* A finished run whose first lookup raised and which went on to look up
\* another place; the record of the failed place is written.
C5_Witness ==
    /\ pc = "done"
    /\ Len(calls) = 2
    /\ calls[1].kind = "raise"
    /\ \E j \in 1..Len(out) : out[j].place = calls[1].place

GeocodingPcs == {"loop", "save_open", "save_dump"}

\* The key of the lookup whose result was not yet saved when the run ended.
InFlight ==
    IF crashedAt \in {"save_open", "save_dump"}
    THEN {KeyOf(unique_places[i])}
    ELSE {}

\* C6 (as claimed): when a run is killed inside the geocoding loop, the
\* cache file still holds every entry of the cache except at most the one of
\* the lookup in flight.
C6_Orig ==
    (pc = "crashed" /\ crashedAt \in GeocodingPcs) =>
       \A k \in DOMAIN cache \ InFlight :
          k \in DOMAIN Persisted /\ Persisted[k] = cache[k]

\* C7: in a run that follows a finished run on the same input and the cache
\* file that run wrote, no lookup is made, the cache is the one of the file,
\* and at the end the rows and the cache file are those of the first run.
C7_SecondRunRoundTrip ==
    (run > 1 /\ prev.done) =>
       /\ calls = <<>>
       /\ pc \in {"loop", "final_dump", "build", "write", "done"}
             => cache = load_geo_cache(prev.file)
       /\ pc = "done" => (rows = prev.rows /\ out = prev.rows /\ file = prev.file)

\* A second run has finished after a first run that made lookups.
C7_Witness ==
    /\ run = 2
    /\ prev.done
    /\ prev.lookups > 0
    /\ pc = "done"
    /\ Len(rows) > 0

\* No write of the cache file is in progress.
Quiescent == pc \notin {"save_dump", "final_dump"}

\* The calls of this run whose result has been saved.
SavedCalls ==
    { n \in 1..Len(calls) :
         n < Len(calls) \/ pc \in {"loop", "final_dump", "build", "write", "done"} }

\* C8 (as claimed): whenever no write is in progress, every entry loaded at
\* the start of the run, every entry saved during the run and every entry
\* of the file the previous run left is in the cache file with its value,
\* and the loaded and saved ones are in the in-memory cache too.
C8_Orig ==
    Quiescent =>
       /\ \A k \in DOMAIN cacheAtStart :
             /\ k \in DOMAIN Persisted /\ Persisted[k] = cacheAtStart[k]
             /\ k \in DOMAIN cache /\ cache[k] = cacheAtStart[k]
       /\ \A n \in SavedCalls :
             /\ str_lower(calls[n].place) \in DOMAIN Persisted
             /\ str_lower(calls[n].place) \in DOMAIN cache
       /\ run > 1 =>
             \A k \in DOMAIN load_geo_cache(prev.file) :
                k \in DOMAIN Persisted /\ Persisted[k] = load_geo_cache(prev.file)[k]

\* C9: the cache key of a place is its lower-cased name: every entry a run
\* adds has a lower-case key, the entry of a looked-up place is under its
\* lower-cased name, places that differ only in case have at most one
\* lookup between them, and their records have the same coordinates.
C9_CaseInsensitive ==
    /\ \A k \in DOMAIN cache \ DOMAIN cacheAtStart : str_lower(k) = k
    /\ \A n \in 1..Len(calls) : str_lower(calls[n].place) \in DOMAIN cache
    /\ \A k \in CacheKeys : Lookups(calls, k) <= 1
    /\ \A j1, j2 \in 1..Len(rows) :
          str_lower(rows[j1].place) = str_lower(rows[j2].place)
             => RowAt(rows, j1) = RowAt(rows, j2)

\* A finished run with two rows whose places differ only in case: one lookup
\* was made, it succeeded, and both records have its location.
C9_Witness ==
    /\ pc = "done"
    /\ Len(calls) = 1
    /\ calls[1].kind = "loc"
    /\ \E j1, j2 \in 1..Len(rows) :
          /\ rows[j1].place # rows[j2].place
          /\ str_lower(rows[j1].place) = str_lower(rows[j2].place)
          /\ RowAt(rows, j1) = RowAt(rows, j2)
          /\ RowAt(rows, j1) # NL_CENTER

\* C10: the step that processes an empty place only moves on to the next
\* place: it makes no call of geocode() and leaves the cache and the cache
\* file as they are; no call is ever made for the empty place and no run
\* adds an entry under the empty key.
C10_EmptyPlaceSkipped ==
    /\ [][ (/\ pc = "loop"
            /\ i <= Len(unique_places)
            /\ unique_places[i] = <<>>
            /\ pc' # "crashed")
              => (/\ pc' = "loop"
                  /\ i' = i + 1
                  /\ calls' = calls
                  /\ cache' = cache
                  /\ file' = file) ]_vars
    /\ [](\A n \in 1..Len(calls) : calls[n].place # <<>>)
    /\ [](<<>> \in DOMAIN cache => <<>> \in DOMAIN cacheAtStart)

\* The loop has just passed over an empty place; the cache has no entry
\* under the empty key.
C10_Witness ==
    /\ pc = "loop"
    /\ i > 1
    /\ unique_places[i - 1] = <<>>
    /\ <<>> \notin DOMAIN cache

\* C11: a call of geocode() that follows an earlier call of the run starts
\* with the cache file rewritten: the file is the JSON text of the in-memory
\* cache; the same holds from the end of the geocoding phase to the end of
\* the run.
C11_SavedBeforeNextLookup ==
    /\ [][ (Len(calls') = Len(calls) + 1 /\ Len(calls) >= 1)
              => (file.kind = "json" /\ json_load(file.body) = cache) ]_vars
    /\ [](pc \in {"build", "write", "done"}
             => (file.kind = "json" /\ json_load(file.body) = cache))

\* A finished run with two lookups, the first of which failed: the file
\* holds the cache, the failed entry included.
C11_Witness ==
    /\ pc = "done"
    /\ Len(calls) = 2
    /\ calls[1].kind # "loc"
    /\ file.kind = "json"
    /\ json_load(file.body) = cache
    /\ cache[str_lower(calls[1].place)].isNone

\* Every non-empty place of the input has a cache entry.
AllPlacesCached ==
    \A j \in 1..Len(places) :
       places[j] # <<>> => str_lower(places[j]) \in DOMAIN cache

\* C12: the phases of a run follow one another: no record is built before
\* the geocoding phase has ended, records are built and the output is
\* written only when every non-empty place has a cache entry, the output is
\* the built rows, one per input row, and a run that is not killed and whose
\* lookups all return or raise ends with the output written.
C12_PhasesInOrder ==
    /\ [](pc \in {"load", "loop", "save_open", "save_dump", "final_dump", "build"}
             => rows = <<>>)
    /\ [](pc \in {"build", "write", "done"} => AllPlacesCached)
    /\ [][ rows' # rows => (pc = "build" \/ pc' = "load") ]_vars
    /\ [][ out' # out => (pc = "write" /\ AllPlacesCached /\ out' = rows) ]_vars
    /\ [](pc = "done" => (out = rows /\ Len(rows) = Len(places)))
    /\ (pc = "load") ~> (pc = "done")

\* A run has ended with its output written after two lookups.
C12_Witness ==
    /\ pc = "done"
    /\ Len(calls) = 2
    /\ Len(out) = Len(places)
    /\ out = rows

\* C13: a date cell that is empty or blank, or that the parser cannot parse,
\* gets date_iso = None; parse_date_cell never raises; the record is built
\* with the raw date string as it was read.
C13_BadDateIsUnknown ==
    /\ dcell.pc # "aborted"
    /\ (/\ dcell.pc \in {"parsed", "emitted"}
        /\ (str_strip(dcell.date) = <<>> \/ dcell.outcome = "raise"))
          => dcell.iso = NoDate
    /\ dcell.pc = "emitted"
          => (dcell.rec.date_raw = dcell.date /\ dcell.rec.date_iso = dcell.iso)

\* A record built from a cell with blanks around text the parser rejected.
C13_Witness ==
    /\ dcell.pc = "emitted"
    /\ dcell.outcome = "raise"
    /\ dcell.date # str_strip(dcell.date)
    /\ dcell.rec = [date_raw |-> dcell.date, date_iso |-> NoDate]

\* C14: whatever expected columns the table has, after lines 63-66 every
\* expected column exists, the ones that were missing hold the empty
\* string in every row, and every column of the input has its values.
C14_MissingColumnsBackfilled ==
    df.pc = "filled" =>
       /\ DOMAIN df.cols = DOMAIN df.input \cup ExpectedSet
       /\ \A c \in ExpectedSet \ DOMAIN df.input :
             df.cols[c] = [r \in 1..df.nrows |-> ""]
       /\ \A c \in DOMAIN df.input : df.cols[c] = df.input[c]

\* A one-row table that had only the place column, with a value, has been
\* completed.
C14_Witness ==
    /\ df.pc = "filled"
    /\ df.nrows = 1
    /\ DOMAIN df.input = {"place"}
    /\ df.cols["place"] = << "v" >>
    /\ df.cols["date"] = << "" >>

\* C15: Close can be seen only while the checkbox is checked; right after an
\* opening the modal is shown with the checkbox unchecked and Close hidden;
\* a shown modal stops being shown only in the step of a click on Close,
\* which needs Close to be visible, and never in the step of an Escape.
C15_CloseOnlyAfterAck ==
    /\ [](CloseVisible(page) => page.ack)
    /\ [](page.event = "open"
             => (ModalShown(page) /\ ~page.ack /\ ~CloseShown(page)))
    /\ [][ (ModalShown(page) /\ ~ModalShown(page'))
              => (page'.event = "close" /\ CloseVisible(page) /\ page.ack) ]_allvars
    /\ [][ (ModalShown(page) /\ page'.event = "escape")
              => (ModalShown(page') /\ page'.prevented) ]_allvars

\* A click on Close has just hidden the modal: the checkbox was checked
\* and Close was shown.
C15_Witness ==
    /\ page.event = "close"
    /\ ~ModalShown(page)
    /\ page.ack
    /\ page.closeDisplay = "inline-block"
    /\ ~page.timer

====
